---- MODULE Spec2Model ----
(***************************************************************************)
(* Tuition escrow backend (backend/app.py) and its funding tool            *)
(* (backend/tools/derive_and_fund.py).                                     *)
(*                                                                         *)
(* Strings are sequences of one-character strings, so that slicing,        *)
(* startswith and strip are computed as Python computes them.              *)
(***************************************************************************)
EXTENDS Integers, Sequences, FiniteSets, TLC

VARIABLES
    PAYER_PRIVATE_KEY_HEX,  \* the environment value, [set |-> BOOLEAN, val |-> string]
    handed,                 \* what each key loader did with the key (app, tool)
    chain,                  \* the node: Store resource and the committed transactions
    req                     \* the handler invocations, by slot

vars == <<PAYER_PRIVATE_KEY_HEX, handed, chain, req>>

----------------------------------------------------------------------------
(* Bounds of the model *)

MaxBody == 3        \* longest key body drawn in the key specification
MaxRequests == 2    \* handler invocations in one behaviour
MaxInitialNextId == 2  \* largest Store.next_id the chain starts with

----------------------------------------------------------------------------
(* Python string primitives *)

WS == " "

\* s[n:]
Drop(s, n) == SubSeq(s, n + 1, Len(s))

\* s.startswith(p)
StartsWith(s, p) == Len(s) >= Len(p) /\ SubSeq(s, 1, Len(p)) = p

RECURSIVE LStrip(_)
LStrip(s) == IF s # <<>> /\ Head(s) = WS THEN LStrip(Tail(s)) ELSE s

RECURSIVE RStrip(_)
RStrip(s) ==
    IF s # <<>> /\ s[Len(s)] = WS THEN RStrip(SubSeq(s, 1, Len(s) - 1)) ELSE s

\* s.strip()
Strip(s) == RStrip(LStrip(s))

TEXT_PREFIX == <<"e", "d", "2", "5", "5", "1", "9", "-", "p", "r", "i", "v", "-">>
HEX_PREFIX == <<"0", "x">>
BARE_X == <<"x">>

----------------------------------------------------------------------------
(* Key normalization, backend/app.py get_payer_account *)

APP_PREFIX_SLICE == 14
APP_HEX_SLICE == 2
APP_X_SLICE == 1

\* lines 60-62: if private_key.startswith("ed25519-priv-"): private_key = private_key[14:]
AppRemoveTextPrefix(s) ==
    IF StartsWith(s, TEXT_PREFIX) THEN Drop(s, APP_PREFIX_SLICE) ELSE s

AppRemoveHexPrefix_KeepsX(s) ==
    IF StartsWith(s, HEX_PREFIX) THEN Drop(s, APP_X_SLICE)
    ELSE IF StartsWith(s, BARE_X) THEN Drop(s, APP_X_SLICE)
    ELSE s

\* lines 65-70: startswith("0x") -> [2:], elif startswith("x") -> [1:]
AppRemoveHexPrefix(s) ==
    IF StartsWith(s, HEX_PREFIX) THEN Drop(s, APP_HEX_SLICE)
    ELSE IF StartsWith(s, BARE_X) THEN Drop(s, APP_X_SLICE)
    ELSE s

\* lines 57-72: the string handed to Account.load_key
AppNormalizeKey(raw) ==
    HEX_PREFIX \o AppRemoveHexPrefix(AppRemoveTextPrefix(Strip(raw)))

----------------------------------------------------------------------------
(* Key normalization, backend/tools/derive_and_fund.py load_account_from_env *)

TOOL_PREFIX_SLICE == 14
TOOL_HEX_SLICE == 2
TOOL_X_SLICE == 1

\* lines 16-17
ToolRemoveTextPrefix(s) ==
    IF StartsWith(s, TEXT_PREFIX) THEN Drop(s, TOOL_PREFIX_SLICE) ELSE s

\* lines 18-21
ToolRemoveHexPrefix(s) ==
    IF StartsWith(s, HEX_PREFIX) THEN Drop(s, TOOL_HEX_SLICE)
    ELSE IF StartsWith(s, BARE_X) THEN Drop(s, TOOL_X_SLICE)
    ELSE s

\* lines 16-22, applied to the stripped value of line 12
ToolNormalizeKey(pk) ==
    HEX_PREFIX \o ToolRemoveHexPrefix(ToolRemoveTextPrefix(pk))

----------------------------------------------------------------------------
(* Account.load_key and get_payer_account *)

\* The body of the key the payer account really has.
GoodBody == <<"a", "0", "a">>

\* Account.load_key(private_key), app.py line 76 / derive_and_fund.py line 23:
\* the signing library accepts the canonical form of the real key and nothing else.
AccountLoadKey(k) == k = HEX_PREFIX \o GoodBody

Unset == [set |-> FALSE, val |-> <<>>]
EnvStr(v) == [set |-> TRUE, val |-> v]

\* get_payer_account, lines 51-79. st: "account" (returned), "not_configured"
\* (line 54) or "load_failed" (line 79); key: the string handed to load_key.
get_payer_account(env) ==
    IF ~env.set \/ env.val = <<>>
    THEN [st |-> "not_configured", key |-> <<>>]
    ELSE LET private_key == AppNormalizeKey(env.val)
         IN  IF AccountLoadKey(private_key)
             THEN [st |-> "account", key |-> private_key]
             ELSE [st |-> "load_failed", key |-> private_key]

\* load_account_from_env, lines 9-23. st: "account", "exit" (line 14) or
\* "load_failed" (load_key raises).
load_account_from_env(env) ==
    LET pk == Strip(IF env.set THEN env.val ELSE <<>>)
    IN  IF pk = <<>>
        THEN [st |-> "exit", key |-> <<>>]
        ELSE LET k == ToolNormalizeKey(pk)
             IN  IF AccountLoadKey(k)
                 THEN [st |-> "account", key |-> k]
                 ELSE [st |-> "load_failed", key |-> k]

NotRun == [st |-> "not_run", key |-> <<>>]

----------------------------------------------------------------------------
(* The key specification: every raw key of the bounded family, both loaders *)

BodyChars == {"a", "0", "e", "x", WS}
HexDigits == {"0", "1", "2", "3", "4", "5", "6", "7", "8", "9",
              "a", "b", "c", "d", "e", "f"}

SeqsUpTo(S, n) == UNION {[1..k -> S] : k \in 0..n}

Padding == {<<>>, <<WS>>}

\* The raw keys: optional whitespace, optional textual prefix, optional hex
\* prefix, a body, optional whitespace.
RawKey(lead, text, hexp, body, trail) == lead \o text \o hexp \o body \o trail

RawKeys ==
    {RawKey(lead, text, hexp, body, trail) :
        lead \in Padding, text \in {<<>>, TEXT_PREFIX}, hexp \in {<<>>, HEX_PREFIX},
        body \in SeqsUpTo(BodyChars, MaxBody), trail \in Padding}

ChainInit0 == [store |-> "absent", next_id |-> 0, ledger |-> {}]

IdleReq == [pc |-> "idle"]

KeyInit ==
    /\ PAYER_PRIVATE_KEY_HEX \in {Unset} \cup {EnvStr(k) : k \in RawKeys}
    /\ handed = [app |-> NotRun, tool |-> NotRun]
    /\ chain = ChainInit0
    /\ req = [r \in 1..MaxRequests |-> IdleReq]

\* the API process resolves the payer account
AppLoadKey ==
    /\ handed.app = NotRun
    /\ handed' = [handed EXCEPT !.app = get_payer_account(PAYER_PRIVATE_KEY_HEX)]
    /\ UNCHANGED <<PAYER_PRIVATE_KEY_HEX, chain, req>>

\* the funding tool resolves the payer account
ToolLoadKey ==
    /\ handed.tool = NotRun
    /\ handed' = [handed EXCEPT !.tool = load_account_from_env(PAYER_PRIVATE_KEY_HEX)]
    /\ UNCHANGED <<PAYER_PRIVATE_KEY_HEX, chain, req>>

KeyNext == AppLoadKey \/ ToolLoadKey

SpecKey == KeyInit /\ [][KeyNext]_vars

\* the strings handed to Account.load_key in this state
HandedKeys ==
    {handed[l].key : l \in {l \in {"app", "tool"} : handed[l].st \in {"account", "load_failed"}}}

----------------------------------------------------------------------------
(* Decimal text: path segments and the u64 fields of a resource are text *)

DigitVal ==
    [d \in {"0", "1", "2", "3", "4", "5", "6", "7", "8", "9"} |->
        CASE d = "0" -> 0 [] d = "1" -> 1 [] d = "2" -> 2 [] d = "3" -> 3
          [] d = "4" -> 4 [] d = "5" -> 5 [] d = "6" -> 6 [] d = "7" -> 7
          [] d = "8" -> 8 [] d = "9" -> 9]

\* a segment the int converter accepts
IsIntText(t) == t \in DOMAIN DigitVal

\* int(t)
ParseInt(t) == DigitVal[t]

\* str(n), as the node renders a u64
IntText(n) == CHOOSE d \in DOMAIN DigitVal : DigitVal[d] = n

----------------------------------------------------------------------------
(* The route table, in registration order, and first-match dispatch *)

PARAM == "{agreement_id}"

Route(method, path, name, endpoint) ==
    [method |-> method, path |-> path, name |-> name, endpoint |-> endpoint]

\* the @app.get / @app.post decorators of app.py, top to bottom
Routes == <<
    Route("GET", <<"api", "health">>, "health_check", "health_check"),
    Route("POST", <<"api", "agreements">>, "create_agreement", "create_agreement_1"),
    Route("POST", <<"api", "agreements", PARAM, "pay">>, "pay_next_installment",
          "pay_next_installment_1"),
    Route("GET", <<"api", "agreements", PARAM>>, "get_agreement_summary",
          "get_agreement_summary_1"),
    Route("POST", <<"api", "agreements">>, "create_agreement", "create_agreement_2"),
    Route("POST", <<"api", "agreements", PARAM, "pay">>, "pay_next_installment",
          "pay_next_installment_2"),
    Route("GET", <<"api", "agreements", PARAM>>, "get_agreement_summary",
          "get_agreement_summary_2"),
    Route("GET", <<"api", "agreements", "next_id">>, "get_next_id", "get_next_id"),
    Route("GET", <<"api", "agreements">>, "list_agreements", "list_agreements")
>>

\* a path parameter matches any one segment; a literal matches itself
PathMatches(pattern, path) ==
    /\ Len(pattern) = Len(path)
    /\ \A i \in 1..Len(pattern) : pattern[i] = PARAM \/ pattern[i] = path[i]

SetMin(S) == CHOOSE x \in S : \A y \in S : x <= y
SetMax(S) == CHOOSE x \in S : \A y \in S : x >= y

\* The router serves a request with the first registered route that matches
\* path and method; 405 when only the path matches, 404 when nothing does.
FirstMatch(method, path) ==
    LET full == {i \in 1..Len(Routes) :
                    Routes[i].method = method /\ PathMatches(Routes[i].path, path)}
        partial == {i \in 1..Len(Routes) : PathMatches(Routes[i].path, path)}
    IN  IF full # {} THEN Routes[SetMin(full)].endpoint
        ELSE IF partial # {} THEN "405"
        ELSE "404"

\* the dispatch under which a later registration would replace an earlier one
LastMatch(method, path) ==
    LET full == {i \in 1..Len(Routes) :
                    Routes[i].method = method /\ PathMatches(Routes[i].path, path)}
        partial == {i \in 1..Len(Routes) : PathMatches(Routes[i].path, path)}
    IN  IF full # {} THEN Routes[SetMax(full)].endpoint
        ELSE IF partial # {} THEN "405"
        ELSE "404"

Dispatch(method, path) == FirstMatch(method, path)

\* The module-level name: a later def rebinds it, so a call by name runs the
\* last definition.
ModuleBinding(name) ==
    Routes[SetMax({i \in 1..Len(Routes) : Routes[i].name = name})].endpoint

\* endpoints declared with agreement_id: int
TakesId ==
    {"pay_next_installment_1", "pay_next_installment_2",
     "get_agreement_summary_1", "get_agreement_summary_2"}

\* the segment bound to {agreement_id}
IdSegment(path) == path[3]

----------------------------------------------------------------------------
(* Requests *)

Reqs == 1..MaxRequests

\* TuitionAgreement bodies (lines 82-88)
Agreement(interval_days, grace_period_days) ==
    [total_amount |-> 100, num_installments |-> 2, installment_amount |-> 50,
     interval_days |-> interval_days, penalty_rate |-> 25,
     grace_period_days |-> grace_period_days]

Agreements == {Agreement(i, g) : i \in {1, 7}, g \in {0, 3}}

NoBody == <<>>

\* time.time() readings
Times == {1700000000, 1700000001}

PayIds == {"0", "7"}
SummaryIds == {"7"}

\* HTTP requests to the agreement routes
HttpInputs ==
    {[method |-> "POST", path |-> <<"api", "agreements">>, body |-> a] : a \in Agreements}
    \cup {[method |-> "POST", path |-> <<"api", "agreements", s, "pay">>, body |-> NoBody] :
            s \in PayIds}
    \cup {[method |-> "GET", path |-> <<"api", "agreements", s>>, body |-> NoBody] :
            s \in SummaryIds \cup {"next_id"}}

\* calls by module-level name: method "CALL", path <<name>> or <<name, "", id>>
CallInputs ==
    {[method |-> "CALL", path |-> <<"create_agreement">>, body |-> a] : a \in Agreements}
    \cup {[method |-> "CALL", path |-> <<"pay_next_installment", "", s>>, body |-> NoBody] :
            s \in PayIds}
    \cup {[method |-> "CALL", path |-> <<"get_agreement_summary", "", s>>, body |-> NoBody] :
            s \in SummaryIds}
    \cup {[method |-> "CALL", path |-> <<"get_next_id">>, body |-> NoBody]}

----------------------------------------------------------------------------
(* Values of responses *)

Null == [null |-> TRUE]
Some(v) == [null |-> FALSE, v |-> v]

\* the hash the node gives the transaction request r submitted
TxHash(r) == [kind |-> "hash", of |-> r]
\* str() of a coroutine object that was never awaited
CoroutineText(fn) == [kind |-> "coroutine", of |-> fn]

NoResp == [status |-> 0]

\* raise HTTPException(status_code=..., detail=...)
HttpError(status, prefix, msg) == [status |-> status, detail |-> <<prefix, msg>>]

\* str(HTTPException(status, detail))
HttpExceptionText(status, detail) == <<status, detail>>

----------------------------------------------------------------------------
(* The node: the module's Store resource and the committed transactions *)

ChainInits ==
    {ChainInit0} \cup {[store |-> "ok", next_id |-> n, ledger |-> {}] : n \in 0..MaxInitialNextId}

\* a committed transaction; id: the agreement it created or paid
Committed(r, payload, id) == [hash |-> TxHash(r), fn |-> payload.fn, id |-> id]

\* The contract runs the entry function of a transaction: create_agreement gives
\* the agreement the id next_id and advances the counter; pay_next_installment
\* needs the agreement to exist; both need the Store.
Execute(c, r, payload) ==
    IF c.store # "ok" THEN [ok |-> FALSE, msg |-> "Store resource missing", chain |-> c]
    ELSE IF payload.fn = "create_agreement"
    THEN [ok |-> TRUE, msg |-> "",
          chain |-> [c EXCEPT !.next_id = @ + 1,
                              !.ledger = @ \cup {Committed(r, payload, c.next_id)}]]
    ELSE IF payload.args[1] < c.next_id
    THEN [ok |-> TRUE, msg |-> "",
          chain |-> [c EXCEPT !.ledger = @ \cup {Committed(r, payload, payload.args[1])}]]
    ELSE [ok |-> FALSE, msg |-> "agreement not found", chain |-> c]

\* What a read of the Store resource can come back with: nothing (None), an
\* error, a record carrying next_id as decimal text, a record without it, or
\* something that is not a record.
ReadOutcomes(c) ==
    IF c.store # "ok"
    THEN {[kind |-> "none"], [kind |-> "raise"]}
    ELSE {[kind |-> "resource", next_id |-> IntText(c.next_id)],
          [kind |-> "no_next_id"], [kind |-> "not_a_record"], [kind |-> "raise"]}

\* client.account_resource(...) called without await: a coroutine object
UnawaitedRead == [kind |-> "coroutine"]

----------------------------------------------------------------------------
(* Transaction builder *)

SECONDS_PER_DAY == 24 * 60 * 60

BuildCreateArgs_IntervalGraceSwapped(agreement, start_time_secs) ==
    <<agreement.installment_amount, agreement.num_installments, start_time_secs,
      agreement.grace_period_days * SECONDS_PER_DAY, agreement.penalty_rate,
      agreement.interval_days * SECONDS_PER_DAY>>

\* create_agreement lines 282-294 (and 137-149): the argument list
BuildCreateArgs(agreement, start_time_secs) ==
    <<agreement.installment_amount, agreement.num_installments, start_time_secs,
      agreement.interval_days * SECONDS_PER_DAY, agreement.penalty_rate,
      agreement.grace_period_days * SECONDS_PER_DAY>>

\* lines 297-304: the entry function payload
CreatePayload(agreement, start_time_secs) ==
    [fn |-> "create_agreement", args |-> BuildCreateArgs(agreement, start_time_secs)]

\* pay_next_installment lines 349-361
PayPayload(agreement_id) ==
    [fn |-> "pay_next_installment", args |-> <<agreement_id>>]

NoPayload == [fn |-> "-", args |-> <<>>]

----------------------------------------------------------------------------
(* What the handlers compute *)

CreatedId_NoDecrement(store_resource) ==
    IF store_resource.kind = "resource"
    THEN Some(ParseInt(store_resource.next_id))
    ELSE Null

\* create_agreement lines 313-326 (and 168-181): created_id from the read of the
\* Store; None when the read raised, gave nothing, gave no record, or the
\* record has no next_id.
CreatedId(store_resource) ==
    IF store_resource.kind = "resource"
    THEN Some(ParseInt(store_resource.next_id) - 1)
    ELSE Null

\* create_agreement lines 328-333 (and 183-188)
CreateOk(tx_hash, created_id) ==
    [status |-> 200, success |-> TRUE, transaction_hash |-> tx_hash,
     message |-> "Tuition agreement created successfully", agreement_id |-> created_id]

CreateAfterRead_ReadErrorPropagates(tx_hash, store_resource) ==
    IF store_resource.kind = "raise"
    THEN HttpError(500, "Failed to create agreement: ", "node error")
    ELSE CreateOk(tx_hash, CreatedId(store_resource))

\* create_agreement lines 313-333 (and 168-188): the response once
\* store_resource is bound (or the read has raised)
CreateAfterRead(tx_hash, store_resource) ==
    CreateOk(tx_hash, CreatedId(store_resource))

\* pay_next_installment lines 370-374 (and 225-229)
PayOk(tx_hash, agreement_id) ==
    [status |-> 200, success |-> TRUE, transaction_hash |-> tx_hash,
     message |-> <<"Installment ", agreement_id, " paid successfully">>]

\* get_payer_account raising inside a handler's try: the handler's except
\* wraps it as a 500 whose detail is prefix + str(e)
PayerError(prefix, payer) ==
    HttpError(500, prefix,
        IF payer.st = "not_configured"
        THEN HttpExceptionText(500, "PAYER_PRIVATE_KEY_HEX not configured")
        ELSE HttpExceptionText(500, "Failed to load account"))

\* AgreementSummary(...) of get_agreement_summary, lines 394-405 (and 249-260)
SummaryOf(agreement_id) ==
    [id |-> agreement_id, payer |-> "0x...", installment_amount |-> 0,
     total_installments |-> 0, paid_installments |-> 0, start_time_secs |-> 0,
     interval_secs |-> 0, penalty_bps |-> 0, grace_period_secs |-> 0, total_paid |-> 0]

\* get_agreement_summary lines 382-408 (and 237-263), given what
\* store_resource is bound to. The 404 raised at line 390 is an Exception and
\* is caught by the except of line 407.
SummaryResponse(agreement_id, store_resource) ==
    IF store_resource.kind = "raise"
    THEN HttpError(500, "Failed to get agreement: ", "node error")
    ELSE IF store_resource.kind = "none"
    THEN HttpError(500, "Failed to get agreement: ",
                   HttpExceptionText(404, "Store resource not found"))
    ELSE [status |-> 200, summary |-> SummaryOf(agreement_id)]

\* get_next_id lines 413-428
NextIdResponse(store_resource) ==
    IF store_resource.kind = "raise"
    THEN HttpError(500, "Failed to get next_id: ", "node error")
    ELSE IF store_resource.kind \in {"none", "not_a_record"}
    THEN HttpError(404, "", "Store resource not found")
    ELSE IF store_resource.kind = "no_next_id"
    THEN HttpError(500, "", "Malformed Store resource")
    ELSE [status |-> 200, next_id |-> ParseInt(store_resource.next_id)]

----------------------------------------------------------------------------
(* The API specification: handler invocations against the node *)

\* The key configurations: unset, the canonical key, and the key in its
\* textual form without a hex prefix.
KeyConfigs ==
    {Unset, EnvStr(HEX_PREFIX \o GoodBody), EnvStr(TEXT_PREFIX \o GoodBody)}

Init ==
    /\ PAYER_PRIVATE_KEY_HEX \in KeyConfigs
    /\ handed = [app |-> NotRun, tool |-> NotRun]
    /\ chain \in ChainInits
    /\ req = [r \in Reqs |-> IdleReq]

InFlight(r) == req[r].pc \in {"waiting", "reading"}

\* The invocations: an HTTP request with the endpoint the router gives it, or
\* a call by name with the definition the name is bound to.
Invocations ==
    {[via |-> "http", input |-> i, endpoint |-> Dispatch(i.method, i.path)] :
        i \in HttpInputs}
    \cup {[via |-> "call", input |-> i, endpoint |-> ModuleBinding(i.path[1])] :
            i \in CallInputs}

\* the framework's validation of agreement_id: int
ValidPath(inv) ==
    inv.endpoint \in TakesId => IsIntText(IdSegment(inv.input.path))

Serves(inv, endpoint) == inv.endpoint = endpoint /\ ValidPath(inv)

\* slots are taken in order
CanArrive(r) ==
    /\ req[r].pc = "idle"
    /\ IF r = 1 THEN TRUE ELSE req[r - 1].pc # "idle"

\* A new invocation in slot r. overlapped: some other invocation was in flight
\* at a moment this one was; before: Store.next_id as it arrived.
Arrive(r, inv) ==
    LET busy == \E o \in Reqs \ {r} : InFlight(o)
        fresh == [pc |-> "start", via |-> inv.via, method |-> inv.input.method,
                  path |-> inv.input.path, body |-> inv.input.body,
                  endpoint |-> inv.endpoint, payload |-> NoPayload, resp |-> NoResp,
                  overlapped |-> busy,
                  before |-> IF chain.store = "ok" THEN Some(chain.next_id) ELSE Null,
                  lastRead |-> "-"]
    IN  [o \in Reqs |->
            IF o = r THEN fresh
            ELSE IF InFlight(o) THEN [req[o] EXCEPT !.overlapped = TRUE]
            ELSE req[o]]

\* the handler returns or raises: its locals are gone, the response stays
Finish(q, resp) ==
    [q EXCEPT !.pc = "done", !.resp = resp, !.body = NoBody, !.payload = NoPayload]

Respond(r, resp) == req' = [req EXCEPT ![r] = Finish(@, resp)]

\* the invocation arrives and is answered in the same step
Answer(r, inv, resp) == req' = [Arrive(r, inv) EXCEPT ![r] = Finish(@, resp)]

AgreementId(path) == ParseInt(IdSegment(path))

At(r, endpoint, pc) == req[r].pc = pc /\ req[r].endpoint = endpoint

\* The router finds no route (404, 405), or the path parameter of the matched
\* route is no integer (422): no endpoint runs.
RejectRequest(r) ==
    /\ CanArrive(r)
    /\ \E inv \in Invocations :
        /\ ~ValidPath(inv) \/ inv.endpoint \in {"404", "405"}
        /\ Answer(r, inv,
             IF inv.endpoint = "404" THEN [status |-> 404]
             ELSE IF inv.endpoint = "405" THEN [status |-> 405]
             ELSE HttpError(422, "", "agreement_id: not a valid integer"))
    /\ UNCHANGED <<PAYER_PRIVATE_KEY_HEX, handed, chain>>

\* create_agreement, first definition, lines 122-191. No call is awaited:
\* get_payer_account() and the client calls only make coroutine objects, so
\* nothing is loaded, signed, submitted or read, and tx_hash and store_resource
\* are coroutine objects.
create_agreement_1(r) ==
    /\ CanArrive(r)
    /\ \E inv \in Invocations, start_time_secs \in Times :
        /\ Serves(inv, "create_agreement_1")
        /\ LET payload == CreatePayload(inv.input.body, start_time_secs)
           IN  Answer(r, inv, CreateAfterRead(CoroutineText("submit_bcs_transaction"),
                                              UnawaitedRead))
    /\ UNCHANGED <<PAYER_PRIVATE_KEY_HEX, handed, chain>>

\* pay_next_installment, first definition, lines 193-232: nothing is awaited
pay_next_installment_1(r) ==
    /\ CanArrive(r)
    /\ \E inv \in Invocations :
        /\ Serves(inv, "pay_next_installment_1")
        /\ LET agreement_id == AgreementId(inv.input.path)
               payload == PayPayload(agreement_id)
           IN  Answer(r, inv, PayOk(CoroutineText("submit_bcs_transaction"), agreement_id))
    /\ UNCHANGED <<PAYER_PRIVATE_KEY_HEX, handed, chain>>

\* get_agreement_summary, first definition, lines 234-263: store_resource is
\* a coroutine object, which is truthy
get_agreement_summary_1(r) ==
    /\ CanArrive(r)
    /\ \E inv \in Invocations :
        /\ Serves(inv, "get_agreement_summary_1")
        /\ Answer(r, inv, SummaryResponse(AgreementId(inv.input.path), UnawaitedRead))
    /\ UNCHANGED <<PAYER_PRIVATE_KEY_HEX, handed, chain>>

\* Lines 271-308 (create) and 342-365 (pay): load the payer, build the payload,
\* sign and submit. The node may refuse the submission.
SubmitStep(r, inv, prefix, payload) ==
    LET payer == get_payer_account(PAYER_PRIVATE_KEY_HEX)
    IN  IF payer.st # "account"
        THEN Answer(r, inv, PayerError(prefix, payer))
        ELSE \E accepted \in BOOLEAN :
                IF accepted
                THEN req' = [Arrive(r, inv) EXCEPT ![r].pc = "waiting",
                                                   ![r].payload = payload]
                ELSE Answer(r, inv, HttpError(500, prefix, "node refused the transaction"))

\* await client.wait_for_transaction(tx_hash), lines 311 and 368. The
\* transaction is executed by the contract, or dropped by the node; the wait
\* raises when it did not succeed, and may time out although it did.
TxFates == {"executed", "dropped", "timeout"}

WaitResult(c, r, payload, fate) ==
    IF fate = "dropped"
    THEN [ok |-> FALSE, msg |-> "transaction dropped", chain |-> c]
    ELSE IF fate = "timeout"
    THEN [ok |-> FALSE, msg |-> "wait timed out", chain |-> Execute(c, r, payload).chain]
    ELSE Execute(c, r, payload)

\* create_agreement, second definition, lines 267-308
create_agreement_2_submit(r) ==
    /\ CanArrive(r)
    /\ \E inv \in Invocations, start_time_secs \in Times :
        /\ Serves(inv, "create_agreement_2")
        /\ SubmitStep(r, inv, "Failed to create agreement: ",
                      CreatePayload(inv.input.body, start_time_secs))
    /\ UNCHANGED <<PAYER_PRIVATE_KEY_HEX, handed, chain>>

\* create_agreement, second definition, line 311
create_agreement_2_wait(r) ==
    /\ At(r, "create_agreement_2", "waiting")
    /\ \E fate \in TxFates :
        LET run == WaitResult(chain, r, req[r].payload, fate)
        IN  /\ chain' = run.chain
            /\ IF run.ok
               THEN req' = [req EXCEPT ![r].pc = "reading"]
               ELSE Respond(r, HttpError(500, "Failed to create agreement: ", run.msg))
    /\ UNCHANGED <<PAYER_PRIVATE_KEY_HEX, handed>>

\* create_agreement, second definition, lines 313-336
create_agreement_2_read(r) ==
    /\ At(r, "create_agreement_2", "reading")
    /\ \E store_resource \in ReadOutcomes(chain) :
        req' = [req EXCEPT ![r] =
                    [Finish(@, CreateAfterRead(TxHash(r), store_resource))
                        EXCEPT !.lastRead = store_resource.kind]]
    /\ UNCHANGED <<PAYER_PRIVATE_KEY_HEX, handed, chain>>

\* pay_next_installment, second definition, lines 338-365
pay_next_installment_2_submit(r) ==
    /\ CanArrive(r)
    /\ \E inv \in Invocations :
        /\ Serves(inv, "pay_next_installment_2")
        /\ SubmitStep(r, inv, "Failed to pay installment: ",
                      PayPayload(AgreementId(inv.input.path)))
    /\ UNCHANGED <<PAYER_PRIVATE_KEY_HEX, handed, chain>>

\* pay_next_installment, second definition, lines 368-377
pay_next_installment_2_wait(r) ==
    /\ At(r, "pay_next_installment_2", "waiting")
    /\ \E fate \in TxFates :
        LET run == WaitResult(chain, r, req[r].payload, fate)
        IN  /\ chain' = run.chain
            /\ Respond(r,
                 IF run.ok
                 THEN PayOk(TxHash(r), AgreementId(req[r].path))
                 ELSE HttpError(500, "Failed to pay installment: ", run.msg))
    /\ UNCHANGED <<PAYER_PRIVATE_KEY_HEX, handed>>

\* get_agreement_summary, second definition, lines 379-408
get_agreement_summary_2(r) ==
    /\ CanArrive(r)
    /\ \E inv \in Invocations, store_resource \in ReadOutcomes(chain) :
        /\ Serves(inv, "get_agreement_summary_2")
        /\ Answer(r, inv, SummaryResponse(AgreementId(inv.input.path), store_resource))
    /\ UNCHANGED <<PAYER_PRIVATE_KEY_HEX, handed, chain>>

\* get_next_id, lines 410-428
get_next_id(r) ==
    /\ CanArrive(r)
    /\ \E inv \in Invocations, store_resource \in ReadOutcomes(chain) :
        /\ Serves(inv, "get_next_id")
        /\ Answer(r, inv, NextIdResponse(store_resource))
    /\ UNCHANGED <<PAYER_PRIVATE_KEY_HEX, handed, chain>>

Next ==
    \E r \in Reqs :
        \/ RejectRequest(r)
        \/ create_agreement_1(r)
        \/ pay_next_installment_1(r)
        \/ get_agreement_summary_1(r)
        \/ create_agreement_2_submit(r)
        \/ create_agreement_2_wait(r)
        \/ create_agreement_2_read(r)
        \/ pay_next_installment_2_submit(r)
        \/ pay_next_installment_2_wait(r)
        \/ get_agreement_summary_2(r)
        \/ get_next_id(r)

Spec == Init /\ [][Next]_vars

----------------------------------------------------------------------------
(* Claims on key normalization, checked under SpecKey *)

HexBodies == SeqsUpTo(BodyChars \cap HexDigits, MaxBody)

\* C1: for every hex body h and each of the four shapes h, ed25519-priv-h, 0xh,
\* ed25519-priv-0xh (optionally surrounded by whitespace), the string handed to
\* Account.load_key by either loader is exactly 0x followed by h.
C1_HandedIsHexPrefixPlusBody ==
    \A lead \in Padding, trail \in Padding, text \in {<<>>, TEXT_PREFIX},
       hexp \in {<<>>, HEX_PREFIX}, h \in HexBodies :
        PAYER_PRIVATE_KEY_HEX = EnvStr(RawKey(lead, text, hexp, h, trail))
            => \A k \in HandedKeys : k = HEX_PREFIX \o h

\* C9: key normalization is idempotent on its output: normalizing the string a
\* loader handed to Account.load_key gives that same string again.
C9_NormalizeIdempotent ==
    /\ handed.app.st \in {"account", "load_failed"}
        => AppNormalizeKey(handed.app.key) = handed.app.key
    /\ handed.tool.st \in {"account", "load_failed"}
        => ToolNormalizeKey(Strip(handed.tool.key)) = handed.tool.key

\* C9 witness: an already canonical 0x key went through both loaders and came
\* out unchanged.
C9_Witness ==
    /\ PAYER_PRIVATE_KEY_HEX = EnvStr(HEX_PREFIX \o GoodBody)
    /\ handed.app = [st |-> "account", key |-> HEX_PREFIX \o GoodBody]
    /\ handed.tool = [st |-> "account", key |-> HEX_PREFIX \o GoodBody]

----------------------------------------------------------------------------
(* Claims on the API, checked under Spec *)

CreatePath == <<"api", "agreements">>
PayPath == <<"api", "agreements", PARAM, "pay">>
SummaryPath == <<"api", "agreements", PARAM>>
NextIdPath == <<"api", "agreements", "next_id">>

\* an answered HTTP request of this method whose path has this shape
DoneHttp(r, method, pattern) ==
    /\ req[r].pc = "done"
    /\ req[r].via = "http"
    /\ req[r].method = method
    /\ PathMatches(pattern, req[r].path)

Success(resp) == resp.status = 200 /\ "success" \in DOMAIN resp /\ resp.success

\* the committed transactions request r submitted
TxsOf(r, fn) == {t \in chain.ledger : t.hash = TxHash(r) /\ t.fn = fn}

CreateEndpoints == {"create_agreement_1", "create_agreement_2"}

\* C2: a success response of POST /api/agreements/{id}/pay is only produced
\* after the pay transaction of that request was signed, submitted and
\* confirmed; a rejected transaction never yields success.
C2_PaySuccessOnlyAfterConfirmed ==
    \A r \in Reqs :
        (DoneHttp(r, "POST", PayPath) /\ Success(req[r].resp))
            => \E t \in TxsOf(r, "pay_next_installment") :
                /\ req[r].resp.transaction_hash = t.hash
                /\ t.id = AgreementId(req[r].path)

\* C3: GET /api/agreements/next_id is answered by get_next_id from the Store:
\* 404 when the Store is absent, next_id or a 500 when it exists; never by
\* another route's handler or validation.
C3_NextIdAnsweredByGetNextId ==
    \A r \in Reqs :
        (DoneHttp(r, "GET", NextIdPath) /\ req[r].path = NextIdPath)
            => /\ req[r].endpoint = "get_next_id"
               /\ IF chain.store = "ok"
                  THEN req[r].resp.status \in {200, 500}
                  ELSE req[r].resp.status = 404

\* C4: GET /api/agreements/{id} answers 404 when the Store is absent, and when
\* the Store exists the placeholder summary carrying the path id (or a 500
\* for another failure).
C4_SummaryNotFoundWhenStoreAbsent ==
    \A r \in Reqs :
        (DoneHttp(r, "GET", SummaryPath) /\ IsIntText(IdSegment(req[r].path)))
            => IF chain.store = "ok"
               THEN \/ req[r].resp.status = 500
                    \/ /\ req[r].resp.status = 200
                       /\ req[r].resp.summary = SummaryOf(AgreementId(req[r].path))
               ELSE req[r].resp.status = 404

\* C5: with PAYER_PRIVATE_KEY_HEX unset, every request to POST /api/agreements
\* and POST /api/agreements/{id}/pay fails with a 500 naming the missing key,
\* and no transaction of it is committed.
C5_UnsetKeyFailsEverySubmittingEndpoint ==
    ~PAYER_PRIVATE_KEY_HEX.set =>
        \A r \in Reqs :
            (DoneHttp(r, "POST", CreatePath) \/ DoneHttp(r, "POST", PayPath))
                => /\ req[r].resp.status = 500
                   /\ req[r].resp.detail[2] =
                        HttpExceptionText(500, "PAYER_PRIVATE_KEY_HEX not configured")
                   /\ \A t \in chain.ledger : t.hash # TxHash(r)

\* C6: with no other request in flight, a POST /api/agreements that returns
\* success has had exactly one create_agreement transaction confirmed, which
\* moved next_id from its value before the call to one more, and a non-null
\* agreement_id is the id that transaction created.
C6_SingleCallerCreateAdvancesNextId ==
    \A r \in Reqs :
        (DoneHttp(r, "POST", CreatePath) /\ Success(req[r].resp) /\ ~req[r].overlapped)
            => /\ Cardinality(TxsOf(r, "create_agreement")) = 1
               /\ \A t \in TxsOf(r, "create_agreement") :
                    /\ req[r].before = Some(t.id)
                    /\ chain.next_id >= t.id + 1
                    /\ ~req[r].resp.agreement_id.null
                        => req[r].resp.agreement_id.v = t.id

FailedReads == {"raise", "none", "not_a_record", "no_next_id", "coroutine"}

\* C7: in create_agreement, once the transaction is confirmed and the counter
\* read has been made, the response is a success carrying the transaction
\* hash; when the read failed (it raised, gave nothing, gave no record, or the
\* record has no next_id) agreement_id is null. No 500 comes from the read.
C7_ReadFailureKeepsSuccess ==
    \A r \in Reqs :
        (req[r].pc = "done" /\ req[r].endpoint \in CreateEndpoints /\ req[r].lastRead # "-")
            => /\ TxsOf(r, "create_agreement") # {}
               /\ req[r].resp.status = 200
               /\ req[r].resp.success
               /\ req[r].resp.transaction_hash = TxHash(r)
               /\ req[r].lastRead \in FailedReads => req[r].resp.agreement_id = Null

\* C7 witness: a create whose transaction is committed and whose read of the
\* Store raised answered success with a null agreement_id.
C7_Witness ==
    \E r \in Reqs :
        /\ req[r].pc = "done"
        /\ req[r].endpoint \in CreateEndpoints
        /\ TxsOf(r, "create_agreement") # {}
        /\ req[r].lastRead = "raise"
        /\ Success(req[r].resp)
        /\ req[r].resp.agreement_id = Null

\* C8: the argument list a create request has built is, in order,
\* (installment_amount, num_installments, start_time_secs, interval_days * 86400,
\* penalty_rate, grace_period_days * 86400): six arguments, total_amount not
\* among them; 7 days give 604800 and 3 days give 259200.
C8_CreateArgsInOrder ==
    \A r \in Reqs :
        (req[r].pc = "waiting" /\ req[r].endpoint \in CreateEndpoints)
            => LET a == req[r].body
                   args == req[r].payload.args
               IN  /\ req[r].payload.fn = "create_agreement"
                   /\ Len(args) = 6
                   /\ args[3] \in Times
                   /\ args = <<a.installment_amount, a.num_installments, args[3],
                               a.interval_days * 86400, a.penalty_rate,
                               a.grace_period_days * 86400>>
                   /\ a.interval_days = 7 => args[4] = 604800
                   /\ a.grace_period_days = 3 => args[6] = 259200

\* C8 witness: a create with interval_days 7 and grace_period_days 3 has built
\* its arguments and submitted them.
C8_Witness ==
    \E r \in Reqs :
        /\ req[r].pc = "waiting"
        /\ req[r].endpoint \in CreateEndpoints
        /\ req[r].body.interval_days = 7
        /\ req[r].body.grace_period_days = 3
        /\ req[r].payload.args[4] = 604800
        /\ req[r].payload.args[6] = 259200

\* a create that answered success with an agreement_id
ReportedId(r) ==
    /\ req[r].pc = "done"
    /\ req[r].endpoint \in CreateEndpoints
    /\ Success(req[r].resp)
    /\ ~req[r].resp.agreement_id.null

FirstDefinitions ==
    {"create_agreement_1", "pay_next_installment_1", "get_agreement_summary_1"}

SecondDefinitions ==
    {"create_agreement_2", "pay_next_installment_2", "get_agreement_summary_2"}

\* a request to one of the three routes registered twice, with a path its
\* handler accepts
DuplicatedRoute(method, path) ==
    \/ method = "POST" /\ PathMatches(CreatePath, path)
    \/ method = "POST" /\ PathMatches(PayPath, path) /\ IsIntText(IdSegment(path))
    \/ method = "GET" /\ PathMatches(SummaryPath, path) /\ IsIntText(IdSegment(path))

\* the endpoint's body has run (the request was not turned away before it)
BodyRan(r) == req[r].pc # "idle" /\ req[r].resp.status \notin {404, 405, 422}

\* C11: for each of the three routes whose handler is defined twice, every
\* request to the route is served by the second (awaiting) definition, and
\* the body of a first definition is never executed.
C11_SecondDefinitionServesEveryRequest ==
    \A r \in Reqs :
        BodyRan(r) =>
            /\ req[r].endpoint \notin FirstDefinitions
            /\ (req[r].via = "http" /\ DuplicatedRoute(req[r].method, req[r].path))
                => req[r].endpoint \in SecondDefinitions

====
